---- MODULE Spec2Model ----
(***************************************************************************)
(* Local Nature Reserve Finder (src/app.py).                               *)
(*                                                                         *)
(* A Streamlit script: every user interaction re-executes app.py from the  *)
(* top.  One execution ("interaction cycle") is modelled as a walk of pc   *)
(* through the script's blocks; the user's interactions between cycles are *)
(* the actions ChangePostcode, ChangeDistance, ClickConfirm and            *)
(* ToggleCheckbox.                                                         *)
(*                                                                         *)
(* Units.  All reserves and postcodes lie on one meridian, so a position   *)
(* is one integer: thousandths of a mile along the meridian, and the       *)
(* haversine distance of two positions is their absolute difference.       *)
(* A rounded distance (the 'distance' column) is in hundredths of a mile.  *)
(***************************************************************************)
EXTENDS Integers, Sequences, FiniteSets

VARIABLES
    gdf,              \* the reserve collection, in fetch order (line 101)
    postcode,         \* text_input value (line 107)
    distance_miles,   \* number_input value (line 112)
    clicked,          \* what st.button('Confirm') returns in this cycle (line 140)
    session_state,    \* the name session_state: bound or not, and its attributes
    editor_data,      \* the table the data_editor's stored edits belong to
    edits,            \* rows whose check box the user has flipped
    pc,               \* position of the running script
    postcode_entered, \* line 131 / 134
    lat,              \* line 129 (position of the origin), Undefined if unset
    shown,            \* UI elements rendered in this cycle
    exception,        \* the unhandled exception that ended the cycle, or "none"
    gdf_distance,     \* gdf['distance'] (line 147)
    nearby,           \* _nearby_parks (line 149)
    table,            \* the frame passed to dataframe_with_selections (164-165)
    selection,        \* line 164
    locations,        \* line 240
    i,                \* index of the zip loop of line 245
    locs_forecast,    \* line 244
    forecast_df       \* line 276

vars == << gdf, postcode, distance_miles, clicked, session_state, editor_data,
           edits, pc, postcode_entered, lat, shown, exception, gdf_distance,
           nearby, table, selection, locations, i, locs_forecast, forecast_df >>

----------------------------------------------------------------------------
(* Bounds of the model *)

MaxReserves == 3
MaxThreshold == 2

(* Program constants *)

DefaultDistance == 15
MinDistance == 0
MaxDistance == 100

Undefined == -1

\* LNR_NAME of the k-th fetched reserve.  Names are unique (the
\* provider's "unique name field"), so a reserve's name is its position in
\* the fetched collection.
NameOf(k) == k

\* Centroid positions of the reserves the provider may return.
CentroidSet == {0, 1004, 2996, 5000}

\* Postcodes the user may type.  "" and "ZZ99" do not resolve.
Postcodes == {"", "ZZ99", "P1", "P2"}

\* Values the number_input can hold.
Thresholds == {t \in (0..MaxThreshold) \cup {DefaultDistance} :
                  MinDistance <= t /\ t <= MaxDistance}

\* Reserve collections: up to MaxReserves reserves, in any fetch order.
\* The reserves are distinct areas: their centroids differ pairwise.
GdfSet ==
    UNION {{g \in [1..n -> CentroidSet] : \A a, b \in 1..n : a # b => g[a] # g[b]} :
              n \in 0..MaxReserves}

Range(s) == {s[k] : k \in DOMAIN s}

----------------------------------------------------------------------------
(* Pure functions *)

Abs(x) == IF x < 0 THEN -x ELSE x

\* haversine(..., unit=Unit.MILES) of two positions on the meridian,
\* in thousandths of a mile.
haversine(a, b) == Abs(a - b)

\* round(x, 2): thousandths of a mile to hundredths, ties to even.
Round2(x) ==
    LET q == x \div 10
        r == x % 10
    IN  IF r < 5 THEN q
        ELSE IF r > 5 THEN q + 1
        ELSE IF q % 2 = 0 THEN q ELSE q + 1

\* distance_from_poly(polygon, start_lat, start_lon)
distance_from_poly(centroid, start) == Round2(haversine(start, centroid))

\* requests.get(postcodes.io).json()['result']['latitude']: the position of
\* a postcode, or Undefined when the lookup or the subscripting raises.
PostcodeLatitude(p) ==
    CASE p = "P1" -> 0
      [] p = "P2" -> 2000
      [] OTHER    -> Undefined

\* gdf['distance'] <= distance_miles  (hundredths of a mile against miles)
StrictlyWithin(d, miles) == d < miles * 100
WithinThreshold(d, miles) == d <= miles * 100

\* gdf[gdf['distance'] <= distance_miles]: the rows of gdf, with their
\* distance, that pass the mask, in gdf order.
NearbyParks(g, dist, miles) ==
    LET rows == [k \in 1..Len(g) |->
                    [LNR_NAME |-> NameOf(k), centroid |-> g[k], distance |-> dist[k]]]
        Keep(r) == WithinThreshold(r.distance, miles)
    IN  SelectSeq(rows, Keep)

\* _nearby_parks[['LNR_NAME','distance']].rename(...)
Rename(rows) ==
    [k \in 1..Len(rows) |-> [Name |-> rows[k].LNR_NAME, distance |-> rows[k].distance]]

Perms(n) == {f \in [1..n -> 1..n] : \A a, b \in 1..n : a # b => f[a] # f[b]}

\* sort_values(by='distance (miles)', ascending=True).reset_index(drop=True):
\* the orders the (unstable) sort may produce.
Unsorted(rows) == {rows}
sort_values(rows) ==
    {[k \in 1..Len(rows) |-> rows[f[k]]] : f \in
        {g \in Perms(Len(rows)) :
            \A a, b \in 1..Len(rows) : a < b => rows[g[a]].distance <= rows[g[b]].distance}}

\* df_with_selections: the "Show weather forecast" column, False everywhere,
\* then .loc[0] = True (lines 53-54).
NoneMarked(df) == [k \in 1..Len(df) |-> FALSE]
DefaultMarks(df) == [k \in 1..Len(df) |-> k = 1]

\* st.data_editor: the frame with the user's edits applied.
EditedMarks(df, ed) == [k \in 1..Len(df) |-> IF k \in ed THEN ~DefaultMarks(df)[k]
                                                          ELSE DefaultMarks(df)[k]]

\* edited_df[edited_df["Show weather forecast"]].drop(...)
SelectedRows(df, marks) ==
    LET idx == {k \in 1..Len(df) : marks[k]}
        F[k \in 0..Len(df)] ==
            IF k = 0 THEN << >>
            ELSE IF k \in idx THEN Append(F[k - 1], df[k]) ELSE F[k - 1]
    IN  F[Len(df)]

\* gdf[gdf.LNR_NAME.isin(names)]['geometry'].centroid.to_list()
AllCentroids(g, names) == g
Locations(g, names) ==
    LET F[k \in 0..Len(g)] ==
            IF k = 0 THEN << >>
            ELSE IF NameOf(k) \in Range(names) THEN Append(F[k - 1], g[k]) ELSE F[k - 1]
    IN  F[Len(g)]

NameList(sel) == [k \in 1..Len(sel) |-> sel[k].Name]

Min(a, b) == IF a < b THEN a ELSE b

----------------------------------------------------------------------------
(* State after construction: the first execution of the script *)

Locals ==
    /\ postcode_entered = FALSE
    /\ lat = Undefined
    /\ shown = {}
    /\ exception = "none"
    /\ gdf_distance = << >>
    /\ nearby = << >>
    /\ table = << >>
    /\ selection = << >>
    /\ locations = << >>
    /\ i = 0
    /\ locs_forecast = << >>
    /\ forecast_df = << >>

InitInputs ==
    /\ gdf \in GdfSet
    /\ postcode = ""
    /\ distance_miles = DefaultDistance
    /\ clicked = FALSE
    /\ editor_data = << >>
    /\ edits = {}
    /\ pc = "resolve"
    /\ Locals

\* app.py never binds the name session_state.
Init ==
    /\ InitInputs
    /\ session_state = [bound |-> FALSE, button_clicked |-> FALSE]

\* The script run with the name bound to Streamlit's (initially empty)
\* session state object, the state in which lines 146-293 can execute.
PipeInit ==
    /\ InitInputs
    /\ session_state = [bound |-> TRUE, button_clicked |-> FALSE]

----------------------------------------------------------------------------
(* User interactions: each starts a new execution of the script *)

Ended == pc \in {"done", "crashed"}

\* A new cycle: the script's names are unset, nothing is rendered yet.  The
\* data_editor's stored edits are dropped if the editor was not rendered in
\* the cycle that just ended.
Rerun ==
    /\ pc' = "resolve"
    /\ postcode_entered' = FALSE
    /\ lat' = Undefined
    /\ shown' = {}
    /\ exception' = "none"
    /\ gdf_distance' = << >>
    /\ nearby' = << >>
    /\ table' = << >>
    /\ selection' = << >>
    /\ locations' = << >>
    /\ i' = 0
    /\ locs_forecast' = << >>
    /\ forecast_df' = << >>
    /\ UNCHANGED << gdf, session_state >>

KeepEditor ==
    IF "table" \in shown
        THEN UNCHANGED << editor_data, edits >>
        ELSE editor_data' = << >> /\ edits' = {}

ChangePostcode ==
    /\ Ended
    /\ \E p \in Postcodes \ {postcode} : postcode' = p
    /\ clicked' = FALSE
    /\ KeepEditor
    /\ Rerun
    /\ UNCHANGED distance_miles

ChangeDistance ==
    /\ Ended
    /\ \E t \in Thresholds \ {distance_miles} : distance_miles' = t
    /\ clicked' = FALSE
    /\ KeepEditor
    /\ Rerun
    /\ UNCHANGED postcode

ClickConfirm ==
    /\ Ended
    /\ clicked' = TRUE
    /\ KeepEditor
    /\ Rerun
    /\ UNCHANGED << postcode, distance_miles >>

ToggleCheckbox ==
    /\ Ended
    /\ "table" \in shown
    /\ \E r \in 1..Len(editor_data) :
          edits' = IF r \in edits THEN edits \ {r} ELSE edits \cup {r}
    /\ clicked' = FALSE
    /\ Rerun
    /\ UNCHANGED << postcode, distance_miles, editor_data >>

----------------------------------------------------------------------------
(* The script *)

Raise(e) == pc' = "crashed" /\ exception' = e

\* Lines 126-134: try: ... except: st.warning(...)
ResolveUnguarded ==
    /\ pc = "resolve"
    /\ lat' = PostcodeLatitude(postcode)
    /\ postcode_entered' = TRUE
    /\ pc' = "button"
    /\ UNCHANGED << gdf, postcode, distance_miles, clicked, session_state,
                    editor_data, edits, shown, exception, gdf_distance, nearby,
                    table, selection, locations, i, locs_forecast, forecast_df >>

Resolve ==
    /\ pc = "resolve"
    /\ IF PostcodeLatitude(postcode) # Undefined
          THEN /\ lat' = PostcodeLatitude(postcode)
               /\ postcode_entered' = TRUE
               /\ shown' = shown
          ELSE /\ lat' = Undefined
               /\ postcode_entered' = FALSE
               /\ shown' = shown \cup {"warning"}
    /\ pc' = "button"
    /\ UNCHANGED << gdf, postcode, distance_miles, clicked, session_state,
                    editor_data, edits, exception, gdf_distance, nearby,
                    table, selection, locations, i, locs_forecast, forecast_df >>

\* Lines 139-141: if st.button('Confirm'): session_state.button_clicked = True
Button ==
    /\ pc = "button"
    /\ IF clicked
          THEN IF session_state.bound
                  THEN /\ session_state' = [session_state EXCEPT !.button_clicked = TRUE]
                       /\ pc' = "gate"
                       /\ UNCHANGED exception
                  ELSE /\ Raise("NameError")
                       /\ UNCHANGED session_state
          ELSE /\ pc' = "gate"
               /\ UNCHANGED << session_state, exception >>
    /\ UNCHANGED << gdf, postcode, distance_miles, clicked, editor_data, edits,
                    postcode_entered, lat, shown, gdf_distance, nearby, table,
                    selection, locations, i, locs_forecast, forecast_df >>

\* Line 144: if postcode_entered and session_state.button_clicked:
Gate ==
    /\ pc = "gate"
    /\ IF ~postcode_entered
          THEN pc' = "done" /\ UNCHANGED exception
          ELSE IF ~session_state.bound
                  THEN Raise("NameError")
                  ELSE IF ~session_state.button_clicked
                          THEN Raise("AttributeError")
                          ELSE pc' = "filter" /\ UNCHANGED exception
    /\ UNCHANGED << gdf, postcode, distance_miles, clicked, session_state,
                    editor_data, edits, postcode_entered, lat, shown,
                    gdf_distance, nearby, table, selection, locations, i,
                    locs_forecast, forecast_df >>

\* Lines 146-153: distance column, proximity filter, empty-result message
Filter ==
    /\ pc = "filter"
    /\ gdf_distance' = [k \in 1..Len(gdf) |-> distance_from_poly(gdf[k], lat)]
    /\ nearby' = NearbyParks(gdf, gdf_distance', distance_miles)
    /\ IF Len(nearby') = 0
          THEN shown' = shown \cup {"error"} /\ pc' = "done"
          ELSE shown' = shown /\ pc' = "select"
    /\ UNCHANGED << gdf, postcode, distance_miles, clicked, session_state,
                    editor_data, edits, postcode_entered, lat, exception,
                    table, selection, locations, i, locs_forecast, forecast_df >>

\* Lines 157-165 with dataframe_with_selections (44-66).  The editor's
\* stored edits apply only to the table they were made on.
Select ==
    /\ pc = "select"
    /\ \E t \in sort_values(Rename(nearby)) :
          /\ table' = t
          /\ editor_data' = t
          /\ edits' = IF t = editor_data THEN edits ELSE {}
          /\ selection' = SelectedRows(t, EditedMarks(t, edits'))
    /\ shown' = shown \cup {"table"}
    /\ pc' = "map"
    /\ UNCHANGED << gdf, postcode, distance_miles, clicked, session_state,
                    postcode_entered, lat, exception, gdf_distance, nearby,
                    locations, i, locs_forecast, forecast_df >>

\* Lines 167-237: the folium map
Map ==
    /\ pc = "map"
    /\ shown' = shown \cup {"map"}
    /\ pc' = "locations"
    /\ UNCHANGED << gdf, postcode, distance_miles, clicked, session_state,
                    editor_data, edits, postcode_entered, lat, exception,
                    gdf_distance, nearby, table, selection, locations, i,
                    locs_forecast, forecast_df >>

\* Lines 239-244
GetLocations ==
    /\ pc = "locations"
    /\ locations' = Locations(gdf, NameList(selection))
    /\ locs_forecast' = << >>
    /\ i' = 1
    /\ pc' = "loop"
    /\ UNCHANGED << gdf, postcode, distance_miles, clicked, session_state,
                    editor_data, edits, postcode_entered, lat, shown, exception,
                    gdf_distance, nearby, table, selection, forecast_df >>

ZipLen == Min(Len(locations), Len(selection))

\* Lines 245-274, one iteration whose two provider calls succeed: the frame
\* is labelled with name and holds the forecast fetched for locs.
ForecastOk ==
    /\ pc = "loop"
    /\ i <= ZipLen
    /\ locs_forecast' = Append(locs_forecast,
                               [location |-> selection[i].Name, at |-> locations[i]])
    /\ i' = i + 1
    /\ UNCHANGED << gdf, postcode, distance_miles, clicked, session_state,
                    editor_data, edits, pc, postcode_entered, lat, shown,
                    exception, gdf_distance, nearby, table, selection,
                    locations, forecast_df >>

\* Lines 247-250, an iteration in which a provider call raises: nothing
\* catches it.
ForecastFails ==
    /\ pc = "loop"
    /\ i <= ZipLen
    /\ Raise("APIException")
    /\ UNCHANGED << gdf, postcode, distance_miles, clicked, session_state,
                    editor_data, edits, postcode_entered, lat, shown,
                    gdf_distance, nearby, table, selection, locations, i,
                    locs_forecast, forecast_df >>

\* Lines 276-293: pd.concat raises ValueError on an empty list
Concat ==
    /\ pc = "loop"
    /\ i > ZipLen
    /\ IF Len(locs_forecast) = 0
          THEN Raise("ValueError") /\ UNCHANGED << forecast_df, shown >>
          ELSE /\ forecast_df' = locs_forecast
               /\ shown' = shown \cup {"chart"}
               /\ pc' = "done"
               /\ UNCHANGED exception
    /\ UNCHANGED << gdf, postcode, distance_miles, clicked, session_state,
                    editor_data, edits, postcode_entered, lat, gdf_distance,
                    nearby, table, selection, locations, i, locs_forecast >>

----------------------------------------------------------------------------
(* Specifications *)

\* app.py as written: the block of lines 146-293 is never entered.
Next ==
    \/ ChangePostcode
    \/ ChangeDistance
    \/ ClickConfirm
    \/ Resolve
    \/ Button
    \/ Gate

Spec == Init /\ [][Next]_vars

\* The whole script.
PipeNext ==
    \/ ChangePostcode
    \/ ChangeDistance
    \/ ClickConfirm
    \/ ToggleCheckbox
    \/ Resolve
    \/ Button
    \/ Gate
    \/ Filter
    \/ Select
    \/ Map
    \/ GetLocations
    \/ ForecastOk
    \/ ForecastFails
    \/ Concat

PipeSpec == PipeInit /\ [][PipeNext]_vars

\* app.py as written, with every block of the script able to run.
FullSpec == Init /\ [][PipeNext]_vars

----------------------------------------------------------------------------
(* Properties *)

\* The proximity filter has run in this cycle.
FilterRan == pc = "select" \/ "error" \in shown \/ "table" \in shown

\* The frame of lines 164-165 has been passed to dataframe_with_selections.
TablePassed == "table" \in shown

InNearby(k) == \E j \in 1..Len(nearby) : nearby[j].LNR_NAME = NameOf(k)
InTable(k) == \E j \in 1..Len(table) : table[j].Name = NameOf(k)

C2_RankingInvariant ==
    TablePassed =>
        /\ Len(table) >= 1
        /\ \A j \in 1..(Len(table) - 1) : table[j].distance <= table[j + 1].distance
        /\ \A k \in 1..Len(gdf) : table[1].distance <= gdf_distance[k]

\* A table whose rows were not in ascending order in the fetched collection.
C2_Witness ==
    /\ TablePassed
    /\ Len(table) >= 2
    /\ \E a, b \in 1..Len(nearby) : a < b /\ nearby[a].distance > nearby[b].distance

\* C3: with a non-empty table and no edit of the check boxes,
\* dataframe_with_selections returns exactly the first (nearest) row.
C3_DefaultSelection ==
    (TablePassed /\ edits = {}) => selection = << table[1] >>

\* The default selection out of several candidates, the nearest of which
\* was not fetched first.
C3_Witness ==
    /\ TablePassed
    /\ edits = {}
    /\ Len(table) >= 2
    /\ selection = << table[1] >>
    /\ table[1].Name # NameOf(1)
    /\ table[1].distance < table[2].distance

\* Reserve k is in the current ranked candidate set.
Candidate(k) ==
    /\ k \in 1..Len(gdf_distance)
    /\ gdf_distance[k] <= distance_miles * 100
    /\ InTable(k)

\* C4: every selected name and every centroid sent to the forecast lookup
\* belongs to a reserve of the current ranked candidate set.
C4_SelectionSubset ==
    /\ \A j \in 1..Len(selection) : Candidate(selection[j].Name)
    /\ \A j \in 1..Len(locations) :
          j <= Len(selection) =>
              \E k \in 1..Len(gdf) : gdf[k] = locations[j] /\ Candidate(k)
    /\ \A j \in 1..Len(locs_forecast) :
          /\ Candidate(locs_forecast[j].location)
          /\ \E k \in 1..Len(gdf) : gdf[k] = locs_forecast[j].at /\ Candidate(k)

\* A forecast was fetched after the user changed postcode and threshold and
\* edited the check boxes, with a reserve lying beyond the threshold.
C4_Witness ==
    /\ Len(locs_forecast) >= 1
    /\ edits # {}
    /\ distance_miles # DefaultDistance
    /\ postcode = "P2"
    /\ \E k \in 1..Len(gdf) : gdf_distance[k] > distance_miles * 100

\* C5: the pairs handed to the forecast loop are one per marked row, in the
\* table's order, each coordinate being the centroid of the reserve that
\* bears the pair's name.
C5_PairsMatchNames ==
    /\ pc = "loop" =>
          /\ Len(locations) = Len(selection)
          /\ \A j \in 1..Len(selection) : locations[j] = gdf[selection[j].Name]
    /\ \A j \in 1..Len(locs_forecast) :
          locs_forecast[j].at = gdf[locs_forecast[j].location]

\* C6: a failed forecast lookup for one of several selected locations
\* does not abort the batch: the cycle ends without an exception, the
\* forecast table holds the records of the other locations and a notice
\* is shown.
C6_PartialFailureOmits ==
    (Ended /\ Len(selection) >= 2 /\ TablePassed) =>
        /\ exception # "APIException"
        /\ pc = "done" =>
              \A j \in 1..Len(selection) :
                  \/ \E f \in 1..Len(forecast_df) :
                        forecast_df[f].location = selection[j].Name
                  \/ "notice" \in shown

\* C7: with a postcode that does not resolve, the warning is shown and the
\* filter, the selection and the forecast lookups never run.
C7_InvalidPostcodeHalts ==
    (PostcodeLatitude(postcode) = Undefined /\ pc # "resolve") =>
        /\ "warning" \in shown
        /\ shown \subseteq {"warning"}
        /\ pc \in {"button", "gate", "done", "crashed"}
        /\ ~FilterRan
        /\ selection = << >>
        /\ locs_forecast = << >>

\* A cycle with an invalid postcode that ended after Confirm had been
\* clicked.
C7_Witness ==
    /\ PostcodeLatitude(postcode) = Undefined
    /\ postcode # ""
    /\ session_state.button_clicked
    /\ pc = "done"
    /\ "warning" \in shown

\* C8: no cycle ends with an unhandled error, and with a valid postcode and
\* Confirm clicked the cycle reaches the proximity filter.
C8_NoUnhandledError ==
    /\ exception = "none"
    /\ (Ended /\ postcode_entered /\ clicked) => FilterRan

NoReserveWithin ==
    \A k \in 1..Len(gdf) : distance_from_poly(gdf[k], lat) > distance_miles * 100

\* C9: when no reserve lies within the threshold, the cycle (valid
\* postcode, Confirm clicked) ends with the Empty Result message, without
\* a crash, a table, a map or a forecast lookup.
C9_EmptyResultShown ==
    (Ended /\ postcode_entered /\ clicked /\ NoReserveWithin) =>
        /\ "error" \in shown
        /\ exception = "none"
        /\ shown \cap {"table", "map", "chart"} = {}
        /\ locs_forecast = << >>

\* The same, for the cycles that enter the block of lines 146-293.
EmptyResultInBlock ==
    (FilterRan /\ NoReserveWithin) =>
        /\ "error" \in shown
        /\ pc = "done"
        /\ exception = "none"
        /\ shown \cap {"table", "map", "chart"} = {}
        /\ locs_forecast = << >>

\* C10: with a non-empty candidate set the forecast step has at least one
\* location, whatever the user did to the check boxes, and the forecast
\* table is built.
C10_ForecastHasTarget ==
    /\ (pc = "loop" /\ Len(table) >= 1) => Len(locations) >= 1
    /\ exception # "ValueError"

\* The block of lines 146-293 is never entered by app.py as written.
BlockUnreachable ==
    pc \in {"resolve", "button", "gate", "done", "crashed"} /\ ~FilterRan

====
